---- MODULE Spec2Model ----
(***************************************************************************)
(* Model of src/try.py: class SiegeModeTester.                             *)
(*                                                                         *)
(* Threads: the main thread (run_siege, the Coordinator, and the SIGINT    *)
(* handler signal_handler that runs in it), NumWorkers siege_worker        *)
(* threads and one stats_monitor thread.  The threads are asynchronous:    *)
(* time.sleep is a pause, never a synchronisation, so every interleaving   *)
(* of the steps below is a behaviour of the program.                       *)
(*                                                                         *)
(* Environment choices: the status code and latency of each response, a    *)
(* transport failure (requests.exceptions.RequestException), the display   *)
(* sink display_request_result raising (it writes to and flushes           *)
(* sys.stdout), thread.join timing out, and the operator's interrupt.      *)
(***************************************************************************)
EXTENDS Integers, Sequences, FiniteSets, TLC

\* ---------------------------------------------------------------- bounds
NumWorkers == 2
MaxRequests == 3
MaxInterrupts == 1
\* The request budget of the fairly scheduled runs.
MaxFairRequests == 2
\* The longest latency sample of which every arrangement is drawn.
MaxSamples == 11

\* ------------------------------------------------------- program constants
FATAL_ERROR_CODES == {500, 502, 503, 504}
\* Status codes the modelled server answers with: a success, a non-fatal
\* error and a fatal error.
Statuses == {200, 404, 503}
\* response_time of a response (positive); 0 is what line 186 records.
Latencies == {1}
\* The key "ConnectionError" of error_counts (line 193); the other keys are
\* status codes, so it is encoded as an integer that is no status code.
ConnectionError == -1

Workers == 1..NumWorkers
Free == 0
MonitorTid == NumWorkers + 1
MainTid == NumWorkers + 2
NoResult == [request_count |-> 0, status_code |-> 0, response_time |-> 0,
             thread_id |-> 0, error |-> FALSE, fatal_error |-> FALSE]
NoReport == [class |-> "none", status_code |-> 0, request_count |-> 0,
             percentiles |-> FALSE, p50 |-> 0, p95 |-> 0, p99 |-> 0]
\* if len(valid_times) >= 10: (line 400)
PercentileThreshold == 10

VARIABLES
    \* SiegeModeTester fields (lines 39-51)
    running, siege_active, total_requests, results, error_counts,
    status_distribution, response_times, lock, fatal_error_detected,
    active_workers, worker_lock,
    \* siege_worker: position and locals of each worker thread
    wpc, thread_requests, status_code, response_time, fatal_error, result,
    loaded,
    \* run_siege: position, len(threads), index of the join loop
    cpc, threads, joined, report, stop_reason,
    \* stats_monitor: position
    mpc,
    \* observations: calls of display_request_result per worker, the thread
    \* whose set() turned the Event on, the set() calls made so far, and the
    \* interrupts delivered so far, whether the log held no fatal result
    \* when the first one arrived, and len(results) when the Event turned on
    emitted, trigger, setters, interrupts, intr_clean, signal_at

vars == <<running, siege_active, total_requests, results, error_counts,
          status_distribution, response_times, lock, fatal_error_detected,
          active_workers, worker_lock, wpc, thread_requests, status_code,
          response_time, fatal_error, result, loaded, cpc, threads, joined,
          report, stop_reason, mpc, emitted, trigger, setters,
          interrupts, intr_clean, signal_at>>

aggregate == <<total_requests, results, error_counts, status_distribution,
               response_times>>
flags == <<running, siege_active>>
signal == <<fatal_error_detected, trigger, setters, signal_at>>
intr == <<interrupts, intr_clean>>
locals == <<thread_requests, status_code, response_time, fatal_error,
            result, loaded>>
coord == <<cpc, threads, joined, report, stop_reason>>

\* ------------------------------------------------------------- helpers
RECURSIVE SumOver(_, _)
SumOver(f, S) ==
    IF S = {} THEN 0
    ELSE LET k == CHOOSE x \in S : TRUE IN f[k] + SumOver(f, S \ {k})

\* sum(self.status_distribution.values())
HistSum == SumOver(status_distribution, DOMAIN status_distribution)

\* [r for r in self.results if r.fatal_error]
FatalResults == SelectSeq(results, LAMBDA r : r.fatal_error)

\* A test that takes every 5xx status for fatal.
check_fatal_error_any5xx(code) == code >= 500

check_fatal_error(code) == code \in FATAL_ERROR_CODES

\* A lock that excludes nobody.
LockAlwaysFree(l) == TRUE

\* threading.Lock: acquire blocks until the lock is free.
LockFree(l) == l = Free

\* A set() that flips the flag.
EventToggle(flag) == ~flag

\* threading.Event.set(): the flag becomes true whatever it was.
EventSet(flag) == TRUE

\* A result whose error flag is set for server errors only.
HttpResultServerErrors(total, treqs, code, rt, tid, fatal) ==
    [request_count |-> total, status_code |-> code, response_time |-> rt,
     thread_id |-> tid, error |-> (code >= 500), fatal_error |-> fatal]

\* A result numbered by the worker's own counter.
HttpResultLocalCount(total, treqs, code, rt, tid, fatal) ==
    [request_count |-> treqs, status_code |-> code, response_time |-> rt,
     thread_id |-> tid, error |-> (code >= 400), fatal_error |-> fatal]

\* SiegeResult built at lines 132-140 (the timestamp is not modelled).
HttpResult(total, treqs, code, rt, tid, fatal) ==
    [request_count |-> total, status_code |-> code, response_time |-> rt,
     thread_id |-> tid, error |-> (code >= 400), fatal_error |-> fatal]

\* A transport result whose fatal flag is computed from its status code.
TransportResultByCode(total, treqs, tid) ==
    [request_count |-> total, status_code |-> 0, response_time |-> 0,
     thread_id |-> tid, error |-> TRUE, fatal_error |-> check_fatal_error(0)]

\* SiegeResult built at lines 182-190.
TransportResult(total, treqs, tid) ==
    [request_count |-> total, status_code |-> 0, response_time |-> 0,
     thread_id |-> tid, error |-> TRUE, fatal_error |-> TRUE]

\* A loop condition that leaves the Event out.
LoopConditionFlagsOnly == running /\ siege_active

\* The loop condition of lines 97, 299 and 344-345.
LoopCondition == running /\ siege_active /\ ~fatal_error_detected

\* Requests sent so far: the recorded ones and those between requests.get
\* and results.append.
Issued ==
    Len(results) + Cardinality({w \in Workers : wpc[w] \in
        {"request", "rec_lock", "rec_incr", "rec_append",
         "exc_lock", "exc_incr", "exc_append"}})

\* The locals of worker w that the code assigns again before it reads them
\* (status_code, response_time, fatal_error, result and the value read by
\* += ) carry nothing into the next iteration: the model drops them there.
DropLocals(w) ==
    /\ status_code' = [status_code EXCEPT ![w] = 0]
    /\ response_time' = [response_time EXCEPT ![w] = 0]
    /\ fatal_error' = [fatal_error EXCEPT ![w] = FALSE]
    /\ result' = [result EXCEPT ![w] = NoResult]
    /\ loaded' = [loaded EXCEPT ![w] = 0]
    /\ UNCHANGED thread_requests

\* One call of fatal_error_detected.set() by thread `who`.
SetSignal(who) ==
    /\ fatal_error_detected' = EventSet(fatal_error_detected)
    /\ trigger' = IF ~fatal_error_detected /\ fatal_error_detected'
                  THEN who ELSE trigger
    /\ setters' = setters \cup {who}
    /\ signal_at' = IF ~fatal_error_detected /\ fatal_error_detected'
                    THEN Len(results) ELSE signal_at

\* ------------------------------------------------------------------ Init
Init ==
    /\ running = TRUE
    /\ siege_active = FALSE
    /\ total_requests = 0
    /\ results = <<>>
    /\ error_counts = [k \in Statuses \cup {ConnectionError} |-> 0]
    /\ status_distribution = [k \in Statuses |-> 0]
    /\ response_times = <<>>
    /\ lock = Free
    /\ fatal_error_detected = FALSE
    /\ active_workers = 0
    /\ worker_lock = Free
    /\ wpc = [w \in Workers |-> "unstarted"]
    /\ thread_requests = [w \in Workers |-> 0]
    /\ status_code = [w \in Workers |-> 0]
    /\ response_time = [w \in Workers |-> 0]
    /\ fatal_error = [w \in Workers |-> FALSE]
    /\ result = [w \in Workers |-> NoResult]
    /\ loaded = [w \in Workers |-> 0]
    /\ cpc = "init"
    /\ threads = 0
    /\ joined = 0
    /\ report = NoReport
    /\ stop_reason = "none"
    /\ mpc = "unstarted"
    /\ emitted = [w \in Workers |-> <<>>]
    /\ trigger = Free
    /\ setters = {}
    /\ interrupts = 0
    /\ intr_clean = FALSE
    /\ signal_at = 0

\* ------------------------------------------------- siege_worker (88-206)
\* with self.worker_lock: (line 93)
Register(w) ==
    /\ wpc[w] = "register"
    /\ LockFree(worker_lock)
    /\ worker_lock' = w
    /\ wpc' = [wpc EXCEPT ![w] = "reg_incr"]
    /\ UNCHANGED <<aggregate, flags, signal, lock, active_workers, locals,
                   coord, mpc, emitted, intr>>

\* self.active_workers += 1 (line 94), leaving the with block
RegisterIncr(w) ==
    /\ wpc[w] = "reg_incr"
    /\ active_workers' = active_workers + 1
    /\ worker_lock' = Free
    /\ wpc' = [wpc EXCEPT ![w] = "loop"]
    /\ UNCHANGED <<aggregate, flags, signal, lock, locals, coord, mpc,
                   emitted, intr>>

\* A request sent without the loop test.
LoopIssueUnchecked(w) ==
    /\ wpc[w] = "loop"
    /\ Issued < MaxRequests
    /\ wpc' = [wpc EXCEPT ![w] = "request"]
    /\ UNCHANGED <<aggregate, flags, signal, lock, active_workers,
                   worker_lock, locals, coord, mpc, emitted, intr>>

\* while ... (line 97) true: build the URL and headers, requests.get sent
LoopIssue(w) ==
    /\ wpc[w] = "loop"
    /\ LoopCondition
    /\ Issued < MaxRequests
    /\ wpc' = [wpc EXCEPT ![w] = "request"]
    /\ UNCHANGED <<aggregate, flags, signal, lock, active_workers,
                   worker_lock, locals, coord, mpc, emitted, intr>>

\* while ... (line 97) false: on to the finally block
LoopExit(w) ==
    /\ wpc[w] = "loop"
    /\ ~LoopCondition
    /\ wpc' = [wpc EXCEPT ![w] = "finally"]
    /\ UNCHANGED <<aggregate, flags, signal, lock, active_workers,
                   worker_lock, locals, coord, mpc, emitted, intr>>

\* requests.get returns (113-125): status_code, response_time, fatal_error
Respond(w) ==
    /\ wpc[w] = "request"
    /\ \E code \in Statuses, rt \in Latencies :
          /\ status_code' = [status_code EXCEPT ![w] = code]
          /\ response_time' = [response_time EXCEPT ![w] = rt]
          /\ fatal_error' = [fatal_error EXCEPT ![w] = check_fatal_error(code)]
    /\ wpc' = [wpc EXCEPT ![w] = "rec_lock"]
    /\ UNCHANGED <<aggregate, flags, signal, lock, active_workers,
                   worker_lock, thread_requests, result, loaded, coord,
                   mpc, emitted, intr>>

\* requests.get raises RequestException: control moves to line 176
TransportFail(w) ==
    /\ wpc[w] = "request"
    /\ wpc' = [wpc EXCEPT ![w] = "exc_lock"]
    /\ UNCHANGED <<aggregate, flags, signal, lock, active_workers,
                   worker_lock, locals, coord, mpc, emitted, intr>>

\* with self.lock: (128 / 177) and the read of self.total_requests in
\* self.total_requests += 1
RecordAcquire(w) ==
    /\ wpc[w] \in {"rec_lock", "exc_lock"}
    /\ LockFree(lock)
    /\ lock' = w
    /\ loaded' = [loaded EXCEPT ![w] = total_requests]
    /\ wpc' = [wpc EXCEPT ![w] = IF wpc[w] = "rec_lock" THEN "rec_incr"
                                  ELSE "exc_incr"]
    /\ UNCHANGED <<aggregate, flags, signal, active_workers, worker_lock,
                   thread_requests, status_code, response_time, fatal_error,
                   result, coord, mpc, emitted, intr>>

\* the write of self.total_requests += 1 and thread_requests += 1
\* (129-130 / 178-179)
RecordIncr(w) ==
    /\ wpc[w] \in {"rec_incr", "exc_incr"}
    /\ total_requests' = loaded[w] + 1
    /\ thread_requests' = [thread_requests EXCEPT ![w] = @ + 1]
    /\ wpc' = [wpc EXCEPT ![w] = IF wpc[w] = "rec_incr" THEN "rec_append"
                                  ELSE "exc_append"]
    /\ UNCHANGED <<results, error_counts, status_distribution,
                   response_times, flags, signal, lock, active_workers,
                   worker_lock, status_code, response_time, fatal_error,
                   result, loaded, coord, mpc, emitted, intr>>

\* A record operation that keeps the lock when it is done.
RecordAppendKeepsLock(w) ==
    /\ wpc[w] = "rec_append"
    /\ LET r == HttpResult(total_requests, thread_requests[w], status_code[w],
                           response_time[w], w, fatal_error[w])
       IN /\ result' = [result EXCEPT ![w] = r]
          /\ results' = Append(results, r)
          /\ status_distribution' =
                [status_distribution EXCEPT ![status_code[w]] = @ + 1]
          /\ response_times' = Append(response_times, response_time[w])
          /\ error_counts' =
                IF status_code[w] >= 400
                THEN [error_counts EXCEPT ![status_code[w]] = @ + 1]
                ELSE error_counts
    /\ wpc' = [wpc EXCEPT ![w] = "display"]
    /\ UNCHANGED <<total_requests, flags, signal, lock, active_workers,
                   worker_lock, thread_requests, status_code, response_time,
                   fatal_error, loaded, coord, mpc, emitted, intr>>

\* lines 132-147, leaving the with block
RecordAppend(w) ==
    /\ wpc[w] = "rec_append"
    /\ LET r == HttpResult(total_requests, thread_requests[w], status_code[w],
                           response_time[w], w, fatal_error[w])
       IN /\ result' = [result EXCEPT ![w] = r]
          /\ results' = Append(results, r)
          /\ status_distribution' =
                [status_distribution EXCEPT ![status_code[w]] = @ + 1]
          /\ response_times' = Append(response_times, response_time[w])
          /\ error_counts' =
                IF status_code[w] >= 400
                THEN [error_counts EXCEPT ![status_code[w]] = @ + 1]
                ELSE error_counts
    /\ lock' = Free
    /\ wpc' = [wpc EXCEPT ![w] = "display"]
    /\ UNCHANGED <<total_requests, flags, signal, active_workers,
                   worker_lock, thread_requests, status_code, response_time,
                   fatal_error, loaded, coord, mpc, emitted, intr>>

\* lines 182-193, leaving the with block
TransportAppend(w) ==
    /\ wpc[w] = "exc_append"
    /\ LET r == TransportResult(total_requests, thread_requests[w], w)
       IN /\ result' = [result EXCEPT ![w] = r]
          /\ results' = Append(results, r)
          /\ error_counts' = [error_counts EXCEPT ![ConnectionError] = @ + 1]
    /\ lock' = Free
    /\ wpc' = [wpc EXCEPT ![w] = "exc_set"]
    /\ UNCHANGED <<total_requests, status_distribution, response_times,
                   flags, signal, active_workers, worker_lock,
                   thread_requests, status_code, response_time, fatal_error,
                   loaded, coord, mpc, emitted, intr>>

\* self.display_request_result(result, thread_requests) returns (line 150)
DisplayOk(w) ==
    /\ wpc[w] = "display"
    /\ emitted' = [emitted EXCEPT ![w] = Append(@, result[w].request_count)]
    /\ wpc' = [wpc EXCEPT ![w] = "fatal_check"]
    /\ UNCHANGED <<aggregate, flags, signal, lock, active_workers,
                   worker_lock, locals, coord, mpc, intr>>

\* An unexpected error handled like a transport failure: the Event is set
\* and the worker leaves its loop.
DisplayRaiseStops(w) ==
    /\ wpc[w] = "display"
    /\ emitted' = [emitted EXCEPT ![w] = Append(@, result[w].request_count)]
    /\ SetSignal(w)
    /\ wpc' = [wpc EXCEPT ![w] = "finally"]
    /\ DropLocals(w)
    /\ UNCHANGED <<aggregate, flags, lock, active_workers, worker_lock,
                   coord, mpc, intr>>

\* display_request_result raises while writing: caught at line 199, the
\* message of line 200 is printed, time.sleep(1), next iteration
DisplayRaise(w) ==
    /\ wpc[w] = "display"
    /\ emitted' = [emitted EXCEPT ![w] = Append(@, result[w].request_count)]
    /\ wpc' = [wpc EXCEPT ![w] = "loop"]
    /\ DropLocals(w)
    /\ UNCHANGED <<aggregate, flags, signal, lock, active_workers,
                   worker_lock, coord, mpc, intr>>

\* if fatal_error: ... self.fatal_error_detected.set(); break (153-157)
FatalStop(w) ==
    /\ wpc[w] = "fatal_check"
    /\ fatal_error[w]
    /\ SetSignal(w)
    /\ wpc' = [wpc EXCEPT ![w] = "finally"]
    /\ DropLocals(w)
    /\ UNCHANGED <<aggregate, flags, lock, active_workers, worker_lock,
                   coord, mpc, emitted, intr>>

\* not fatal: the delay of lines 159-172 is computed, time.sleep(delay),
\* next iteration
Delay(w) ==
    /\ wpc[w] = "fatal_check"
    /\ ~fatal_error[w]
    /\ wpc' = [wpc EXCEPT ![w] = "loop"]
    /\ DropLocals(w)
    /\ UNCHANGED <<aggregate, flags, signal, lock, active_workers,
                   worker_lock, coord, mpc, emitted, intr>>

\* A transport failure that ends the thread without the finally block.
TransportStopNoFinally(w) ==
    /\ wpc[w] = "exc_set"
    /\ SetSignal(w)
    /\ wpc' = [wpc EXCEPT ![w] = "done"]
    /\ DropLocals(w)
    /\ UNCHANGED <<aggregate, flags, lock, active_workers, worker_lock,
                   coord, mpc, emitted, intr>>

\* print; self.fatal_error_detected.set(); break (195-197)
TransportStop(w) ==
    /\ wpc[w] = "exc_set"
    /\ SetSignal(w)
    /\ wpc' = [wpc EXCEPT ![w] = "finally"]
    /\ DropLocals(w)
    /\ UNCHANGED <<aggregate, flags, lock, active_workers, worker_lock,
                   coord, mpc, emitted, intr>>

\* finally: with self.worker_lock: (line 205)
Unregister(w) ==
    /\ wpc[w] = "finally"
    /\ LockFree(worker_lock)
    /\ worker_lock' = w
    /\ wpc' = [wpc EXCEPT ![w] = "unreg_decr"]
    /\ UNCHANGED <<aggregate, flags, signal, lock, active_workers, locals,
                   coord, mpc, emitted, intr>>

\* self.active_workers -= 1 (line 206); the thread ends
UnregisterDecr(w) ==
    /\ wpc[w] = "unreg_decr"
    /\ active_workers' = active_workers - 1
    /\ worker_lock' = Free
    /\ wpc' = [wpc EXCEPT ![w] = "done"]
    /\ UNCHANGED <<aggregate, flags, signal, lock, locals, coord, mpc,
                   emitted, intr>>

\* ---------------------------------------------- signal_handler (56-61)
\* SIGINT delivered to the main thread while it is in run_siege
Interrupt ==
    /\ cpc # "done"
    /\ interrupts < MaxInterrupts
    /\ interrupts' = interrupts + 1
    /\ intr_clean' = IF interrupts = 0 THEN FatalResults = <<>> ELSE intr_clean
    /\ running' = FALSE
    /\ siege_active' = FALSE
    /\ SetSignal(MainTid)
    /\ UNCHANGED <<aggregate, lock, active_workers, worker_lock, wpc, locals,
                   coord, mpc, emitted>>

\* --------------------------------------------------- run_siege (303-368)
\* self.siege_active = True; stats_thread.start() (319-328)
StartSiege ==
    /\ cpc = "init"
    /\ siege_active' = TRUE
    /\ mpc' = "m_loop"
    /\ cpc' = "spawn"
    /\ UNCHANGED <<aggregate, running, signal, lock, active_workers,
                   worker_lock, wpc, locals, threads, joined, report,
                   stop_reason, emitted, intr>>

\* one iteration of the loop of lines 332-340: thread.start()
Spawn ==
    /\ cpc = "spawn"
    /\ threads < NumWorkers
    /\ threads' = threads + 1
    /\ wpc' = [wpc EXCEPT ![threads + 1] = "register"]
    /\ cpc' = IF threads + 1 = NumWorkers THEN "wait" ELSE "spawn"
    /\ UNCHANGED <<aggregate, flags, signal, lock, active_workers,
                   worker_lock, locals, joined, report, stop_reason, mpc,
                   emitted, intr>>

\* The reason the wait loop ends when its condition is false: the thread
\* whose set() turned the Event on is a worker or the interrupt handler.
ConditionStopReason == IF trigger \in Workers THEN "fatal" ELSE "external"

\* while ... (344-345) true: time.sleep(0.5), on to line 349
WaitContinue ==
    /\ cpc = "wait"
    /\ LoopCondition
    /\ cpc' = "poll"
    /\ UNCHANGED <<aggregate, flags, signal, lock, active_workers,
                   worker_lock, wpc, locals, threads, joined, report,
                   stop_reason, mpc, emitted, intr>>

\* while ... (344-345) false: on to the cleanup of line 360
WaitExit ==
    /\ cpc = "wait"
    /\ ~LoopCondition
    /\ cpc' = "cleanup"
    /\ stop_reason' = ConditionStopReason
    /\ UNCHANGED <<aggregate, flags, signal, lock, active_workers,
                   worker_lock, wpc, locals, threads, joined, report,
                   mpc, emitted, intr>>

\* with self.worker_lock: (line 349)
PollAcquire ==
    /\ cpc = "poll"
    /\ LockFree(worker_lock)
    /\ worker_lock' = MainTid
    /\ cpc' = "poll_check"
    /\ UNCHANGED <<aggregate, flags, signal, lock, active_workers, wpc,
                   locals, threads, joined, report, stop_reason, mpc,
                   emitted, intr>>

\* The test of line 350.
AllWorkersStopped == active_workers = 0 /\ siege_active

\* if self.active_workers == 0 and self.siege_active: break (350-352)
PollBreak ==
    /\ cpc = "poll_check"
    /\ AllWorkersStopped
    /\ worker_lock' = Free
    /\ cpc' = "cleanup"
    /\ stop_reason' = "zero_workers"
    /\ UNCHANGED <<aggregate, flags, signal, lock, active_workers, wpc,
                   locals, threads, joined, report, mpc, emitted, intr>>

\* the test of line 350 is false: back to the while of line 344
PollContinue ==
    /\ cpc = "poll_check"
    /\ ~AllWorkersStopped
    /\ worker_lock' = Free
    /\ cpc' = "wait"
    /\ UNCHANGED <<aggregate, flags, signal, lock, active_workers, wpc,
                   locals, threads, joined, report, stop_reason, mpc,
                   emitted, intr>>

\* A cleanup that leaves the run marked active.
CleanupKeepsActive ==
    /\ cpc = "cleanup"
    /\ joined' = 0
    /\ cpc' = "join"
    /\ UNCHANGED <<aggregate, flags, signal, lock, active_workers,
                   worker_lock, wpc, locals, threads, report, stop_reason,
                   mpc, emitted, intr>>

\* self.siege_active = False (360-361)
Cleanup ==
    /\ cpc = "cleanup"
    /\ siege_active' = FALSE
    /\ joined' = 0
    /\ cpc' = "join"
    /\ UNCHANGED <<aggregate, running, signal, lock, active_workers,
                   worker_lock, wpc, locals, threads, report, stop_reason,
                   mpc, emitted, intr>>

\* thread.join(timeout=2.0) returns because the thread ended (364-365)
JoinEnded ==
    /\ cpc = "join"
    /\ joined < threads
    /\ wpc[joined + 1] = "done"
    /\ joined' = joined + 1
    /\ cpc' = IF joined + 1 = threads THEN "report" ELSE "join"
    /\ UNCHANGED <<aggregate, flags, signal, lock, active_workers,
                   worker_lock, wpc, locals, threads, report, stop_reason,
                   mpc, emitted, intr>>

\* thread.join(timeout=2.0) returns because the two seconds passed
JoinTimeout ==
    /\ cpc = "join"
    /\ joined < threads
    /\ wpc[joined + 1] # "done"
    /\ joined' = joined + 1
    /\ cpc' = IF joined + 1 = threads THEN "report" ELSE "join"
    /\ UNCHANGED <<aggregate, flags, signal, lock, active_workers,
                   worker_lock, wpc, locals, threads, report, stop_reason,
                   mpc, emitted, intr>>

\* ------------------------------------------ display_final_report (370-468)
\* The branch of the SIEGE OUTCOME section (446-466) the report takes:
\* "no_results" is the early return of lines 372-374, "blank" the case of
\* line 451 where the Event is set and no result is fatal (nothing printed).
OutcomeClass ==
    IF results = <<>> THEN "no_results"
    ELSE IF fatal_error_detected
         THEN IF FatalResults # <<>> THEN "fatal" ELSE "blank"
         ELSE "manual"

\* last_fatal = fatal_results[-1] (line 452)
LastFatal ==
    IF FatalResults # <<>> THEN FatalResults[Len(FatalResults)] ELSE NoResult

\* valid_times = [t for t in self.response_times if t > 0] (line 392)
valid_times == SelectSeq(response_times, LAMBDA t : t > 0)

\* sorted(valid_times) (line 401): ascending, by insertion.
RECURSIVE sorted(_)
sorted(s) ==
    IF s = <<>> THEN <<>>
    ELSE LET rest == sorted(Tail(s))
             k == Cardinality({i \in 1..Len(rest) : rest[i] < Head(s)})
         IN SubSeq(rest, 1, k) \o <<Head(s)>> \o SubSeq(rest, k + 1, Len(rest))

\* An index that rounds to the nearest integer.
PercentileIndexRounded(n, pct) == (n * pct + 50) \div 100

\* int(len(sorted_times) * 0.5), ... * 0.95, ... * 0.99 (402-404), pct in
\* hundredths: the float product truncated, which is the integer quotient.
PercentileIndex(n, pct) == (n * pct) \div 100

\* sorted_times[idx] if idx < len(sorted_times) else 0 (406-408); Python
\* indexes from 0.
Percentile(sorted_times, pct) ==
    LET idx == PercentileIndex(Len(sorted_times), pct)
    IN IF idx < Len(sorted_times) THEN sorted_times[idx + 1] ELSE 0

\* The percentile lines of the report (400-412) are printed.
PercentilesShown ==
    results # <<>> /\ Len(valid_times) >= PercentileThreshold

FinalReportOf ==
    [class |-> OutcomeClass,
     status_code |-> IF OutcomeClass = "fatal" THEN LastFatal.status_code ELSE 0,
     request_count |-> IF OutcomeClass = "fatal" THEN LastFatal.request_count
                       ELSE 0,
     percentiles |-> PercentilesShown,
     p50 |-> IF PercentilesShown THEN Percentile(sorted(valid_times), 50) ELSE 0,
     p95 |-> IF PercentilesShown THEN Percentile(sorted(valid_times), 95) ELSE 0,
     p99 |-> IF PercentilesShown THEN Percentile(sorted(valid_times), 99) ELSE 0]

\* self.display_final_report(config) (line 368)
FinalReport ==
    /\ cpc = "report"
    /\ report' = FinalReportOf
    /\ cpc' = "done"
    /\ UNCHANGED <<aggregate, flags, signal, lock, active_workers,
                   worker_lock, wpc, locals, threads, joined, stop_reason,
                   mpc, emitted, intr>>

\* ----------------------- stats_monitor / display_stats_dashboard (239-301)
\* while ... (line 299) true: time.sleep(stats_interval), on to line 301
MonitorTick ==
    /\ mpc = "m_loop"
    /\ LoopCondition
    /\ mpc' = "m_dash"
    /\ UNCHANGED <<aggregate, flags, signal, lock, active_workers,
                   worker_lock, wpc, locals, coord, emitted, intr>>

\* while ... (line 299) false: the monitor thread ends
MonitorExit ==
    /\ mpc = "m_loop"
    /\ ~LoopCondition
    /\ mpc' = "m_done"
    /\ UNCHANGED <<aggregate, flags, signal, lock, active_workers,
                   worker_lock, wpc, locals, coord, emitted, intr>>

\* if not self.results: return (241-242), else on to line 244
DashboardEnter ==
    /\ mpc = "m_dash"
    /\ mpc' = IF results = <<>> THEN "m_loop" ELSE "m_lock"
    /\ UNCHANGED <<aggregate, flags, signal, lock, active_workers,
                   worker_lock, wpc, locals, coord, emitted, intr>>

\* with self.lock: (line 244)
DashboardAcquire ==
    /\ mpc = "m_lock"
    /\ LockFree(lock)
    /\ lock' = MonitorTid
    /\ mpc' = "m_render"
    /\ UNCHANGED <<aggregate, flags, signal, active_workers, worker_lock,
                   wpc, locals, coord, emitted, intr>>

\* What lines 245-295 read of the shared state.
DashboardView ==
    [total |-> total_requests, loglen |-> Len(results), histsum |-> HistSum,
     active |-> active_workers]

\* A dashboard that empties the latency sample it has shown.
DashboardRenderResets ==
    /\ mpc = "m_render"
    /\ response_times' = <<>>
    /\ lock' = Free
    /\ mpc' = "m_loop"
    /\ UNCHANGED <<total_requests, results, error_counts,
                   status_distribution, flags, signal, active_workers,
                   worker_lock, wpc, locals, coord, emitted, intr>>

\* lines 245-295 computed and printed, leaving the with block
DashboardRender ==
    /\ mpc = "m_render"
    /\ lock' = Free
    /\ mpc' = "m_loop"
    /\ UNCHANGED <<aggregate, flags, signal, active_workers, worker_lock,
                   wpc, locals, coord, emitted, intr>>

\* ------------------------------------------------------- specification
WorkerStep(w) ==
    \/ Register(w) \/ RegisterIncr(w)
    \/ LoopIssue(w) \/ LoopExit(w)
    \/ Respond(w) \/ TransportFail(w)
    \/ RecordAcquire(w) \/ RecordIncr(w)
    \/ RecordAppend(w) \/ TransportAppend(w)
    \/ DisplayOk(w) \/ DisplayRaise(w)
    \/ FatalStop(w) \/ Delay(w)
    \/ TransportStop(w)
    \/ Unregister(w) \/ UnregisterDecr(w)

CoordinatorStep ==
    \/ StartSiege \/ Spawn
    \/ WaitContinue \/ WaitExit
    \/ PollAcquire \/ PollBreak \/ PollContinue
    \/ Cleanup \/ JoinEnded \/ JoinTimeout
    \/ FinalReport

MonitorStep ==
    \/ MonitorTick \/ MonitorExit
    \/ DashboardEnter \/ DashboardAcquire \/ DashboardRender

Next ==
    \/ \E w \in Workers : WorkerStep(w)
    \/ CoordinatorStep
    \/ MonitorStep
    \/ Interrupt

Spec == Init /\ [][Next]_vars

\* ------------------------------------------------------- fair scheduling
\* The same program under a request budget of MaxFairRequests: the loop
\* test of line 97 passes and requests.get is called (97-118).
FairLoopIssue(w) ==
    /\ Issued < MaxFairRequests
    /\ LoopIssue(w)

FairWorkerStep(w) ==
    \/ Register(w) \/ RegisterIncr(w)
    \/ FairLoopIssue(w) \/ LoopExit(w)
    \/ Respond(w) \/ TransportFail(w)
    \/ RecordAcquire(w) \/ RecordIncr(w)
    \/ RecordAppend(w) \/ TransportAppend(w)
    \/ DisplayOk(w) \/ DisplayRaise(w)
    \/ FatalStop(w) \/ Delay(w)
    \/ TransportStop(w)
    \/ Unregister(w) \/ UnregisterDecr(w)

\* A step of a thread of the program.
FairThreadStep ==
    \/ \E w \in Workers : FairWorkerStep(w)
    \/ CoordinatorStep
    \/ MonitorStep

FairNext ==
    \/ FairThreadStep
    \/ Interrupt

\* The scheduler runs a thread that can take a step, and a request in
\* flight returns or times out (timeout=config['timeout'], line 116): as
\* long as some thread can take a step, one does. This is weaker than the
\* fairness of each thread. The interrupt is not fair: nobody has to press
\* Ctrl+C.
Fairness == WF_vars(FairThreadStep)

FairSpec == Init /\ [][FairNext]_vars /\ Fairness

\* ------------------------------------------------------------ properties
\* Positions of a worker that has left its loop.
Exited == {"finally", "unreg_decr", "done"}

\* The sequence numbers of the results worker w recorded, in log order.
Mine(w) ==
    LET sel == SelectSeq(results, LAMBDA r : r.thread_id = w)
    IN [i \in 1..Len(sel) |-> sel[i].request_count]

\* The record operations completed so far (thread_requests counts them per
\* worker).
Completed == SumOver(thread_requests, Workers)

\* The run is over: the final report is out and every thread has ended.
RunOver == cpc = "done" /\ \A w \in Workers : wpc[w] = "done"

\* C1: whenever no worker is inside the record critical section, the counts
\* of status_distribution sum to total_requests.
C1_HistogramSumsToTotal ==
    lock \notin Workers => HistSum = total_requests

\* C2: whenever no worker is inside the record critical section,
\* total_requests and the length of results both equal the number of record
\* operations completed.
C2_NoLostUpdate ==
    lock \notin Workers =>
        /\ total_requests = Completed
        /\ Len(results) = Completed

\* C2 witness: the bound of requests is used up and every worker recorded.
C2_Witness ==
    /\ lock \notin Workers
    /\ Completed = MaxRequests
    /\ \A w \in Workers : thread_requests[w] >= 1

\* C3: the i-th result of the log has sequence number i.
C3_SequenceNumbers ==
    \A i \in 1..Len(results) : results[i].request_count = i

\* C3 witness: a log of MaxRequests results in which two workers alternate.
C3_Witness ==
    /\ Len(results) = MaxRequests
    /\ \E i \in 1..(Len(results) - 1) :
          results[i].thread_id # results[i + 1].thread_id

\* C4: a recorded fatal result leads to the Event being set; stated on the
\* runs that end: when the run is over and the log holds a fatal result,
\* the Event is set.
C4_FatalSetsSignal ==
    RunOver /\ FatalResults # <<>> => fatal_error_detected

\* C5: every result with status 0 has error and fatal_error set, and the
\* worker that recorded it is about to set the Event or has set it and left
\* its loop; a worker past the transport failure has recorded such a result.
C5_TransportFailureStops ==
    /\ \A i \in 1..Len(results) :
          results[i].status_code = 0 =>
             /\ results[i].error /\ results[i].fatal_error
             /\ \/ wpc[results[i].thread_id] = "exc_set"
                \/ /\ fatal_error_detected
                   /\ wpc[results[i].thread_id] \in Exited
    /\ \A w \in Workers :
          wpc[w] = "exc_set" =>
             /\ result[w].status_code = 0
             /\ \E i \in 1..Len(results) : results[i] = result[w]

\* C5 witness: a transport failure is in the log, its worker has ended
\* and the Event is set.
C5_Witness ==
    \E i \in 1..Len(results) :
        /\ results[i].status_code = 0
        /\ wpc[results[i].thread_id] = "done"
        /\ fatal_error_detected

\* C6: as long as no fatal result is recorded and no interrupt arrived, the
\* Event is unset, the Coordinator is in its wait loop (or before it) with
\* the run not marked inactive, and no worker has left its loop.
C6_NoSelfTermination ==
    interrupts = 0 /\ FatalResults = <<>> =>
        /\ ~fatal_error_detected
        /\ cpc \in {"init", "spawn", "wait", "poll", "poll_check"}
        /\ cpc # "init" => siege_active
        /\ \A w \in Workers : wpc[w] \notin Exited

\* C7: when the run ended after an interrupt that arrived while the log
\* held no fatal result, and results were recorded, the log holds no fatal
\* result and the report takes the manually-stopped branch.
C7_InterruptIsManualStop ==
    cpc = "done" /\ interrupts > 0 /\ intr_clean /\ report.class # "no_results" =>
        /\ FatalResults = <<>>
        /\ report.class = "manual"

\* C8: the branch the report takes tells the stop reason: the fatal branch
\* is taken only after a stop by a fatal result and the manually-stopped
\* branch only after a stop by interrupt, so a stop on zero live workers
\* takes neither.
C8_ReportDistinguishesStops ==
    cpc = "done" =>
        /\ report.class = "fatal" => stop_reason = "fatal"
        /\ report.class = "manual" => stop_reason = "external"

\* C9: the Event starts unset, a set Event stays set, and the thread that
\* turned it on stays the only one that did.
C9_SignalOneWay ==
    /\ ~fatal_error_detected /\ trigger = Free
    /\ [][/\ fatal_error_detected => fatal_error_detected'
          /\ trigger # Free => trigger' = trigger
          /\ fatal_error_detected' <=> trigger' # Free]_vars

\* C9 witness: every worker and the interrupt handler have called set().
C9_Witness ==
    /\ fatal_error_detected
    /\ setters = Workers \cup {MainTid}

\* C10: for every worker, the calls of display_request_result are, in
\* order, the results it recorded, one call each; only the result a worker
\* has just recorded may still be waiting for its call.
C10_EveryOutcomeDisplayed ==
    \A w \in Workers :
        IF wpc[w] \in {"display", "exc_set"}
        THEN emitted[w] = SubSeq(Mine(w), 1, Len(Mine(w)) - 1)
        ELSE emitted[w] = Mine(w)

\* ----------------------------------------------- the report of a long run
\* response_time values a sample is drawn from: 0 (dropped by line 392) and
\* two positive latencies.
SampleValues == 0..2

\* The n latencies n, n-1, ..., 1 and 1, 2, ..., n.
Descending(n) == [i \in 1..n |-> n + 1 - i]
Ascending(n) == [i \in 1..n |-> i]

\* The samples drawn: every arrangement of SampleValues of a length from
\* just below the threshold of line 400 up to MaxSamples, and ramps long
\* enough for the three indices to differ.
Samples ==
    UNION {[1..n -> SampleValues] : n \in (PercentileThreshold - 1)..MaxSamples}
    \cup {Ascending(10), Descending(10), Descending(21), Descending(40)}

\* The state in which display_final_report is called after worker 1 has
\* recorded a 200 response for each latency of the sample and the operator
\* has stopped the run.
PctInit ==
    /\ response_times \in Samples
    /\ results = [i \in 1..Len(response_times) |->
                     HttpResult(i, i, 200, response_times[i], 1, FALSE)]
    /\ total_requests = Len(response_times)
    /\ error_counts = [k \in Statuses \cup {ConnectionError} |-> 0]
    /\ status_distribution =
           [k \in Statuses |-> IF k = 200 THEN Len(response_times) ELSE 0]
    /\ running = FALSE
    /\ siege_active = FALSE
    /\ lock = Free
    /\ fatal_error_detected = TRUE
    /\ active_workers = 0
    /\ worker_lock = Free
    /\ wpc = [w \in Workers |-> "done"]
    /\ thread_requests =
           [w \in Workers |-> IF w = 1 THEN Len(response_times) ELSE 0]
    /\ status_code = [w \in Workers |-> 0]
    /\ response_time = [w \in Workers |-> 0]
    /\ fatal_error = [w \in Workers |-> FALSE]
    /\ result = [w \in Workers |-> NoResult]
    /\ loaded = [w \in Workers |-> 0]
    /\ cpc = "report"
    /\ threads = NumWorkers
    /\ joined = NumWorkers
    /\ report = NoReport
    /\ stop_reason = "external"
    /\ mpc = "m_done"
    /\ emitted = [w \in Workers |->
                     IF w = 1 THEN Ascending(Len(response_times)) ELSE <<>>]
    /\ trigger = MainTid
    /\ setters = {MainTid}
    /\ interrupts = MaxInterrupts
    /\ intr_clean = TRUE
    /\ signal_at = Len(response_times)

PctNext == FinalReport

PctSpec == PctInit /\ [][PctNext]_vars

\* C15: once the report is made, with n the number of positive latencies:
\* if n >= 10 the percentiles are shown and p50, p95 and p99 are the
\* elements of the ascending order at the 0-based indices floor(0.50 n),
\* floor(0.95 n) and floor(0.99 n), each index below n, so none is the
\* fallback 0; if n < 10 no percentile is shown; and of the ten latencies
\* 0.1 .. 1.0 (in tenths: 1 .. 10) p50 is 0.6.
C15_Percentiles ==
    cpc = "done" =>
        LET pos == {i \in 1..Len(response_times) : response_times[i] > 0}
            n == Cardinality(pos)
            Below(v) == Cardinality({i \in pos : response_times[i] < v})
            UpTo(v) == Cardinality({i \in pos : response_times[i] <= v})
            AtIndex(v, k) == Below(v) <= k /\ k < UpTo(v)
        IN /\ n >= 10 =>
                /\ report.percentiles
                /\ (n * 99) \div 100 < n
                /\ AtIndex(report.p50, (n * 50) \div 100)
                /\ AtIndex(report.p95, (n * 95) \div 100)
                /\ AtIndex(report.p99, (n * 99) \div 100)
                /\ report.p50 > 0 /\ report.p95 > 0 /\ report.p99 > 0
           /\ n < 10 => ~report.percentiles
           /\ response_times \in {Ascending(10), Descending(10)} =>
                report.p50 = 6

\* C15 witness: the report of the forty latencies 1 .. 40 shows three
\* different percentiles.
C15_Witness ==
    /\ cpc = "done"
    /\ Len(response_times) = 40
    /\ report.percentiles
    /\ report.p50 = 21 /\ report.p95 = 39 /\ report.p99 = 40

\* C11: every result of the log has its error flag set exactly when its
\* status code is at least 400 or is the transport sentinel 0.
C11_ErrorFlag ==
    \A i \in 1..Len(results) :
        results[i].error <=>
            (results[i].status_code >= 400 \/ results[i].status_code = 0)

\* C11 witness: the log holds a success, a non-fatal error and a transport
\* failure.
C11_Witness ==
    /\ \E i \in 1..Len(results) : results[i].status_code = 200
    /\ \E i \in 1..Len(results) : results[i].status_code = 404
    /\ \E i \in 1..Len(results) : results[i].status_code = 0

\* The HTTP status codes that check_fatal_error takes for fatal.
FatalCodes == {code \in 100..599 : check_fatal_error(code)}

\* C12: check_fatal_error is true of 500, 502, 503 and 504 and of no other
\* code of 100..599, and every result of the log has its fatal flag set
\* exactly when its status is one of these or the transport sentinel 0.
C12_FatalFlag ==
    /\ FatalCodes = {500, 502, 503, 504}
    /\ \A i \in 1..Len(results) :
          results[i].fatal_error <=>
              results[i].status_code \in {500, 502, 503, 504, 0}

\* C12 witness: the log holds a fatal status, a non-fatal error and a
\* transport failure.
C12_Witness ==
    /\ \E i \in 1..Len(results) : results[i].status_code = 503
    /\ \E i \in 1..Len(results) : results[i].status_code = 404
    /\ \E i \in 1..Len(results) : results[i].status_code = 0

\* Every worker has ended and deregistered, the run is marked inactive and
\* the final report has been made.
ShutdownComplete ==
    /\ \A w \in Workers : wpc[w] = "done"
    /\ active_workers = 0
    /\ ~siege_active
    /\ cpc = "done"

\* C13: under fair scheduling, once the Event is set (by a worker or by the
\* interrupt handler) every worker eventually leaves its loop and ends, the
\* live-worker counter reaches 0, and the Coordinator marks the run inactive
\* and makes the final report.
C13_ShutdownCompletes == fatal_error_detected ~> ShutdownComplete

\* C13 witness: a run stopped by the Event has shut down completely.
C13_Witness ==
    /\ fatal_error_detected
    /\ ShutdownComplete
    /\ results # <<>>

\* C14: a step in which the display call of worker w does not return (an
\* unexpected error, caught at line 199) takes w to the top of its loop and
\* leaves the Event, running, siege_active and active_workers as they were.
C14_UnexpectedErrorContinues ==
    [][\A w \in Workers :
          (wpc[w] = "display" /\ wpc'[w] \notin {"display", "fatal_check"})
          => /\ wpc'[w] = "loop"
             /\ fatal_error_detected' = fatal_error_detected
             /\ running' = running
             /\ siege_active' = siege_active
             /\ active_workers' = active_workers]_vars

\* C14 witness: a worker is back at the top of its loop although it
\* recorded a fatal result, with the Event unset and the worker registered:
\* its display call raised.
C14_Witness ==
    \E w \in Workers :
        /\ wpc[w] = "loop"
        /\ \E i \in 1..Len(results) :
              results[i].thread_id = w /\ results[i].fatal_error
        /\ ~fatal_error_detected
        /\ running /\ siege_active
        /\ active_workers >= 1

\* C16: a worker that recorded a fatal result records nothing more: no
\* result of a worker has a larger sequence number than a fatal result of
\* the same worker.
C16_NothingAfterFatal ==
    \A i, j \in 1..Len(results) :
        (results[i].fatal_error /\ results[j].thread_id = results[i].thread_id)
        => results[j].request_count <= results[i].request_count

\* The results worker w recorded after the Event turned on.
RecordedAfterSignal(w) ==
    {i \in (signal_at + 1)..Len(results) : results[i].thread_id = w}

\* C17: a worker at the top of its loop with the Event set, or with the run
\* marked inactive, sends no request; and once the Event is set each worker
\* records at most one more result.
C17_PolledAtLoopTop ==
    [][/\ \A w \in Workers :
             (wpc[w] = "loop"
              /\ (fatal_error_detected \/ ~siege_active \/ ~running))
             => wpc'[w] # "request"
       /\ fatal_error_detected' =>
             \A w \in Workers : Cardinality(RecordedAfterSignal(w)') <= 1]_vars

\* C17 witness: the Event is set, both workers have recorded a result since
\* then, and both have left their loops.
C17_Witness ==
    /\ fatal_error_detected
    /\ \A w \in Workers :
          Cardinality(RecordedAfterSignal(w)) = 1 /\ wpc[w] \in Exited

\* C18: what a report reads is never mid-update: while the dashboard reads
\* (245-295), and when the final report is about to read a log that is not
\* empty (376-468), total_requests equals len(results).
C18_ReportsReadWholeUpdates ==
    /\ mpc = "m_render" => DashboardView.total = DashboardView.loglen
    /\ (cpc = "report" /\ results # <<>>) => total_requests = Len(results)

\* C19: while the dashboard computes and prints its statistics it does not
\* hold the lock of the aggregate state.
C19_DashboardRendersUnlocked ==
    mpc = "m_render" => lock # MonitorTid

\* Positions of a worker inside the while loop of lines 97-201.
InLoop == {"loop", "request", "rec_lock", "rec_incr", "rec_append",
           "exc_lock", "exc_incr", "exc_append", "display", "fatal_check",
           "exc_set"}

\* C20: when the Coordinator calls display_final_report, active_workers is 0
\* and no worker is inside its loop.
C20_ReportAfterPoolStopped ==
    cpc = "report" =>
        /\ active_workers = 0
        /\ \A w \in Workers : wpc[w] \notin InLoop

\* C20, amended: when the Coordinator calls display_final_report, and from
\* then on, the run is marked inactive and every worker thread has been
\* joined (by its end or by the timeout); if every worker has ended,
\* active_workers is 0; and no worker passes its loop test any more, so a
\* worker records at most the result of the iteration it is in.
C20_ReportAfterJoins ==
    [][/\ cpc' \in {"report", "done"} =>
             /\ ~siege_active'
             /\ joined' = NumWorkers
             /\ (\A w \in Workers : wpc'[w] = "done") => active_workers' = 0
       /\ cpc \in {"report", "done"} =>
             \A w \in Workers : wpc[w] = "loop" => wpc'[w] # "request"]_vars

\* C20 witness: the report found the log empty, and a worker whose join
\* timed out has recorded a result since and is still registered.
C20_Witness ==
    /\ cpc = "done"
    /\ report.class = "no_results"
    /\ Len(results) = 1
    /\ \E w \in Workers : wpc[w] = "display"
    /\ active_workers >= 1

Registered ==
    {w \in Workers : wpc[w] \in InLoop \cup {"finally", "unreg_decr"}}

\* C22: active_workers equals the number of workers that have registered
\* and not yet deregistered on leaving their loop; it is within 0..N, and
\* it is 0 once every worker has ended.
C22_LiveWorkerCounter ==
    /\ active_workers = Cardinality(Registered)
    /\ active_workers \in 0..NumWorkers
    /\ (\A w \in Workers : wpc[w] = "done") => active_workers = 0

\* C22 witness: every worker has ended, one after a transport failure, one
\* after a fatal status or on finding its loop test false, and the counter
\* is 0.
C22_Witness ==
    /\ \A w \in Workers : wpc[w] = "done"
    /\ active_workers = 0
    /\ \E i \in 1..Len(results) : results[i].status_code = 0
    /\ \E w \in Workers : w \notin setters /\ thread_requests[w] >= 1

\* C23: a step of the monitor thread (stats_monitor and the dashboard it
\* calls) leaves total_requests, results, status_distribution, error_counts,
\* response_times, active_workers, running, siege_active and the Event
\* unchanged.
C23_DashboardReadOnly ==
    [][(mpc # "unstarted" /\ mpc' # mpc) =>
          /\ total_requests' = total_requests
          /\ results' = results
          /\ status_distribution' = status_distribution
          /\ error_counts' = error_counts
          /\ response_times' = response_times
          /\ active_workers' = active_workers
          /\ running' = running
          /\ siege_active' = siege_active
          /\ fatal_error_detected' = fatal_error_detected]_vars

\* C23 witness: the dashboard is computing and printing over a log of two
\* results while a worker waits to record a third.
C23_Witness ==
    /\ mpc = "m_render"
    /\ Len(results) = 2
    /\ \E w \in Workers : wpc[w] \in {"rec_lock", "exc_lock"}

\* C24: the Coordinator takes the zero-live-workers stop (350-352) only
\* when every started worker has registered and has deregistered again.
C24_ZeroWorkersMeansAllExited ==
    stop_reason = "zero_workers" => \A w \in Workers : wpc[w] = "done"

\* Positions of a worker inside with self.lock: (128-147, 180-193) and
\* inside with self.worker_lock: (93-94, 205-206).
InRecordSection == {"rec_incr", "rec_append", "exc_incr", "exc_append"}
InCounterSection == {"reg_incr", "unreg_decr"}

\* C25: the two locks never deadlock. A lock is held only by a thread that
\* is inside the with block of that lock, so a thread that has left the
\* block has released it and no thread holds one lock while it waits for,
\* or holds, the other; and whenever a lock is held its holder can take a
\* step.
C25_NoLockDeadlock ==
    /\ lock \in {Free, MonitorTid} \cup Workers
    /\ worker_lock \in {Free, MainTid} \cup Workers
    /\ \A w \in Workers :
          /\ lock = w => wpc[w] \in InRecordSection
          /\ worker_lock = w => wpc[w] \in InCounterSection
    /\ lock = MonitorTid => mpc = "m_render"
    /\ worker_lock = MainTid => cpc = "poll_check"
    /\ lock \in Workers => ENABLED WorkerStep(lock)
    /\ lock = MonitorTid => ENABLED MonitorStep
    /\ worker_lock \in Workers => ENABLED WorkerStep(worker_lock)
    /\ worker_lock = MainTid => ENABLED CoordinatorStep

\* C25 witness: both locks are held, self.lock by a worker and worker_lock
\* by the Coordinator, while the monitor waits for the first and another
\* worker for the second.
C25_Witness ==
    /\ lock \in Workers
    /\ mpc = "m_lock"
    /\ worker_lock = MainTid
    /\ \E w \in Workers : wpc[w] \in {"register", "finally"}

====
